---- MODULE Spec2Model ----
(***************************************************************************)
(* A model of argv_parser.py: the process-wide registry FLAGS, the five    *)
(* registration functions and parse_flags, one loop iteration per step.    *)
(* A string is a sequence of one-character strings, so that arg[0],        *)
(* arg[1:], int(), float() and re.match() are computed character by        *)
(* character.  Sequences are 1-based here and 0-based in the source; a     *)
(* search that finds nothing yields 0 here and -1 in the source.           *)
(***************************************************************************)
EXTENDS Integers, Sequences, FiniteSets, TLC

\* ---------------------------------------------------------------- bounds
MaxFlags == 2
MaxArgs == 3
MaxCalls == 2

\* The names a caller registers and the patterns it gives to regex_flag.
Names == { <<"p">>, <<"p", "q">> }
\* regex_flag's (name, regex): the default pattern and a narrower one.
RegexFlags == { << <<"p">>, <<".", "+">> >>, << <<"p", "q">>, <<"\\", "d", "+">> >> }
\* The tokens of an argument vector, after the program name.
Tokens ==
    { <<>>,
      <<"-", "p">>,
      <<"-", "p", "q">>,
      <<"7">>,
      <<".", "5">> }
ProgramName == <<"x">>

RECURSIVE SeqsUpTo(_, _)
SeqsUpTo(S, n) ==
    IF n = 0 THEN { <<>> }
    ELSE LET shorter == SeqsUpTo(S, n - 1)
         IN  shorter \cup { Append(s, t) : s \in shorter, t \in S }

Argvs == { <<ProgramName>> \o s : s \in SeqsUpTo(Tokens, MaxArgs) }

\* ---------------------------------------------------------------- values
\* __FlagValue = Union[int, str, bool, float]: a tagged value.  A float is
\* n * 10^e with n not divisible by 10 unless e = 0.
IntVal(n) == [t |-> "int", n |-> n, e |-> 0, s |-> <<>>, b |-> FALSE]
FloatVal(n, e) == [t |-> "float", n |-> n, e |-> e, s |-> <<>>, b |-> FALSE]
StrVal(s) == [t |-> "str", n |-> 0, e |-> 0, s |-> s, b |-> FALSE]
BoolVal(b) == [t |-> "bool", n |-> 0, e |-> 0, s |-> <<>>, b |-> b]

\* class FlagType
INT == "INT"
FLOAT == "FLOAT"
STR == "STR"
BOOL == "BOOL"
REGEX == "REGEX"

\* @dataclass class Flag
Flag(value, required, typ, name, default, description, regex) ==
    [value |-> value, required |-> required, typ |-> typ, name |-> name,
     default |-> default, description |-> description, regex |-> regex]

Description == <<"d">>

\* ------------------------------------------------------- int() and float()
Digits == {"0", "1", "2", "3", "4", "5", "6", "7", "8", "9"}
DigitVal(c) ==
    CASE c = "0" -> 0 [] c = "1" -> 1 [] c = "2" -> 2 [] c = "3" -> 3
      [] c = "4" -> 4 [] c = "5" -> 5 [] c = "6" -> 6 [] c = "7" -> 7
      [] c = "8" -> 8 [] c = "9" -> 9

AllDigits(s) == \A i \in 1..Len(s) : s[i] \in Digits

RECURSIVE DigitsValue(_)
DigitsValue(s) ==
    IF s = <<>> THEN 0
    ELSE 10 * DigitsValue(SubSeq(s, 1, Len(s) - 1)) + DigitVal(s[Len(s)])

Signed(s) == s # <<>> /\ s[1] \in {"+", "-"}
Unsigned(s) == IF Signed(s) THEN Tail(s) ELSE s
SignOf(s) == IF Signed(s) /\ s[1] = "-" THEN -1 ELSE 1

\* int(value) succeeds: an optional sign and one or more decimal digits.
int_ok(s) == Unsigned(s) # <<>> /\ AllDigits(Unsigned(s))
int_of(s) == SignOf(s) * DigitsValue(Unsigned(s))

\* float(value) succeeds: an optional sign, digits with at most one point and
\* at least one digit.
PointAt(s) ==
    LET P == { i \in 1..Len(s) : s[i] = "." }
    IN  IF P = {} THEN 0 ELSE CHOOSE i \in P : \A j \in P : i <= j
IntPart(s) == IF PointAt(s) = 0 THEN s ELSE SubSeq(s, 1, PointAt(s) - 1)
FracPart(s) == IF PointAt(s) = 0 THEN <<>> ELSE SubSeq(s, PointAt(s) + 1, Len(s))

float_ok(s) ==
    LET u == Unsigned(s)
    IN  /\ AllDigits(IntPart(u))
        /\ AllDigits(FracPart(u))
        /\ IntPart(u) \o FracPart(u) # <<>>

RECURSIVE Normal(_, _)
Normal(n, e) ==
    IF n = 0 THEN FloatVal(0, 0)
    ELSE IF e < 0 /\ n % 10 = 0 THEN Normal(n \div 10, e + 1)
    ELSE FloatVal(n, e)

float_of(s) ==
    LET u == Unsigned(s)
    IN  Normal(SignOf(s) * DigitsValue(IntPart(u) \o FracPart(u)),
               0 - Len(FracPart(u)))

\* -------------------------------------------------------------- re.match()
\* The patterns are sequences of atoms (a literal character, '.', or the
\* class \d), each optionally followed by '+' or '*'.  re.match anchors the
\* match at the start of the string and allows anything after it.
AtomLen(pat, i) == IF pat[i] = "\\" THEN 2 ELSE 1
AtomOk(pat, i, c) ==
    IF pat[i] = "\\" THEN (pat[i + 1] = "d" /\ c \in Digits)
    ELSE IF pat[i] = "." THEN c # "\n"
    ELSE c = pat[i]

Quant(pat, i) ==
    LET q == i + AtomLen(pat, i)
    IN  IF q <= Len(pat) /\ pat[q] \in {"+", "*"} THEN pat[q] ELSE ""

RECURSIVE MatchFrom(_, _, _, _)
MatchFrom(pat, i, s, j) ==
    IF i > Len(pat) THEN TRUE
    ELSE LET al == AtomLen(pat, i)
             q == Quant(pat, i)
             Run(k) == \A m \in j..(j + k - 1) : AtomOk(pat, i, s[m])
         IN  IF q = ""
             THEN j <= Len(s) /\ AtomOk(pat, i, s[j]) /\ MatchFrom(pat, i + al, s, j + 1)
             ELSE \E k \in (IF q = "+" THEN 1 ELSE 0)..(Len(s) - j + 1) :
                      Run(k) /\ MatchFrom(pat, i + al + 1, s, j + k)

re_match(regex, arg) == MatchFrom(regex, 1, arg, 1)

\* ------------------------------------------------------------------ state
VARIABLES
    FLAGS,          \* the registry: a sequence of Flag records
    pc,             \* "idle", "loop" (inside parse_flags), "returned" (at its exit)
    program_argv,   \* parse_flags' local: the tokens not yet popped
    flags,          \* parse_flags' local working list: indices into FLAGS
    raised,         \* the exception parse_flags ended with, or NoError
    calls,          \* the number of parse_flags calls made
    start,          \* history: the values of the descriptors when the call began
    hits,           \* history: per descriptor, the tokens that selected it in this call
    writes          \* history: per descriptor, the iterations that stored its value

vars == <<FLAGS, pc, program_argv, flags, raised, calls, start, hits, writes>>

NoError == [exc |-> "", kind |-> "", about |-> <<>>]
Error(exc, kind, about) == [exc |-> exc, kind |-> kind, about |-> about]

Init ==
    /\ FLAGS = <<>>
    /\ pc = "idle"
    /\ program_argv = <<>>
    /\ flags = <<>>
    /\ raised = NoError
    /\ calls = 0
    /\ start = <<>>
    /\ hits = <<>>
    /\ writes = <<>>

\* ----------------------------------------------------------- registration
\* __new_flag: the descriptor starts with value = default and is appended.
new_flag(name, default, description, typ, required, regex) ==
    /\ pc = "idle"
    /\ Len(FLAGS) < MaxFlags
    /\ FLAGS' = Append(FLAGS, Flag(default, required, typ, name, default, description, regex))
    /\ UNCHANGED <<pc, program_argv, flags, raised, calls, start, hits, writes>>

int_flag(name, required) ==
    new_flag(name, IntVal(0), Description, INT, required, <<>>)

str_flag(name, required) ==
    new_flag(name, StrVal(<<>>), Description, STR, required, <<>>)

regex_flag(name, regex, required) ==
    new_flag(name, StrVal(<<>>), Description, REGEX, required, regex)

bool_flag(name) ==
    new_flag(name, BoolVal(FALSE), Description, BOOL, FALSE, <<>>)

float_flag(name, required) ==
    new_flag(name, FloatVal(0, 0), Description, FLOAT, required, <<>>)

\* ------------------------------------------------------------ parse_flags
\* Mutant: the working list leaves out the descriptors that already hold a
\* value other than their default.
WorkingCopyUnmatched(F) ==
    LET keep == { i \in 1..Len(F) : F[i].value = F[i].default }
        RECURSIVE Build(_)
        Build(n) == IF n = 0 THEN <<>>
                    ELSE IF n \in keep THEN Append(Build(n - 1), n) ELSE Build(n - 1)
    IN  Build(Len(F))

\* flags = FLAGS[:]: a new list of the same descriptors, in registration order.
WorkingCopy(F) == [i \in 1..Len(F) |-> i]

Least(S) == CHOOSE i \in S : \A j \in S : i <= j

\* argv[1:]
DropProgramName(a) == SubSeq(a, 2, Len(a))

\* Mutant: the matched descriptor stays in the working list.
PopNothing(w, i) == w

\* list.pop(i)
Pop(w, i) == SubSeq(w, 1, i - 1) \o SubSeq(w, i + 1, Len(w))


\* The for loop over enumerate(flags): the position in the working list of
\* the first REGEX descriptor whose pattern matches arg, or 0.
FirstRegex(F, w, arg) ==
    LET S == { i \in 1..Len(w) : F[w[i]].typ = REGEX /\ re_match(F[w[i]].regex, arg) }
    IN  IF S = {} THEN 0 ELSE Least(S)

\* Mutant: v.name.startswith(arg[1:]) in place of the equality.
FirstNamedPrefix(F, w, name) ==
    LET S == { i \in 1..Len(w) :
                 /\ Len(F[w[i]].name) >= Len(name)
                 /\ SubSeq(F[w[i]].name, 1, Len(name)) = name }
    IN  IF S = {} THEN 0 ELSE Least(S)

\* next((i for i, v in enumerate(flags) if v.name == arg[1:]), -1)
FirstNamed(F, w, name) ==
    LET S == { i \in 1..Len(w) : F[w[i]].name = name }
    IN  IF S = {} THEN 0 ELSE Least(S)

SetValue(F, idx, v) == [F EXCEPT ![idx].value = v]

\* What one loop iteration leaves behind: the registry, the two locals, the
\* exception raised (NoError: the loop goes on), the descriptor the token
\* selected (0: none) and whether its value was stored.
Outcome(F, w, pa, err, sel, wrote) ==
    [F |-> F, w |-> w, pa |-> pa, err |-> err, sel |-> sel, wrote |-> wrote]

\* Mutant: a failed int() or float() leaves the raw token in the descriptor.
StoreValueKeepsRaw(F, idx, arg, value) ==
    LET typ == F[idx].typ
        ok == IF typ = INT THEN int_ok(value)
              ELSE IF typ = FLOAT THEN float_ok(value) ELSE TRUE
    IN  IF ~ok
        THEN [F |-> SetValue(F, idx, StrVal(value)),
              err |-> Error("TypeError", "TypeMismatch", arg)]
        ELSE IF typ = FLOAT
        THEN [F |-> SetValue(F, idx, float_of(value)), err |-> NoError]
        ELSE [F |-> SetValue(F, idx, StrVal(value)), err |-> NoError]

\* The stores of flag.value after value = program_argv.pop(0).
\* An INT descriptor is stored twice: int(value) by the first if, and then the
\* raw value by the else of the second if, which tests FLOAT only.
StoreValue(F, idx, arg, value) ==
    LET typ == F[idx].typ
        afterInt ==
            IF typ = INT
            THEN IF int_ok(value)
                 THEN [F |-> SetValue(F, idx, IntVal(int_of(value))), err |-> NoError]
                 ELSE [F |-> F, err |-> Error("TypeError", "TypeMismatch", arg)]
            ELSE [F |-> F, err |-> NoError]
    IN  IF afterInt.err # NoError THEN afterInt
        ELSE IF typ = FLOAT
        THEN IF float_ok(value)
             THEN [F |-> SetValue(afterInt.F, idx, float_of(value)), err |-> NoError]
             ELSE [F |-> afterInt.F, err |-> Error("TypeError", "TypeMismatch", arg)]
        ELSE [F |-> SetValue(afterInt.F, idx, StrVal(value)), err |-> NoError]

\* if arg[0] != '-': the regex flags.
RegexBranch(F, w, arg, rest) ==
    LET i == FirstRegex(F, w, arg)
    IN  IF i = 0
        THEN Outcome(F, w, rest, Error("ValueError", "UnexpectedToken", arg), 0, FALSE)
        ELSE Outcome(SetValue(F, w[i], StrVal(arg)), Pop(w, i), rest, NoError, w[i], TRUE)

\* Mutant: the test for a missing value comes before the test for BOOL.
NamedBranchArgcFirst(F, w, arg, rest) ==
    LET flag_idx == FirstNamed(F, w, Tail(arg))
        idx == w[flag_idx]
        argc == Len(rest)
    IN  IF flag_idx = 0
        THEN Outcome(F, w, rest, Error("ValueError", "UnknownFlag", arg), 0, FALSE)
        ELSE IF argc = 0
        THEN Outcome(F, Pop(w, flag_idx), rest,
                     Error("ValueError", "MissingValue", arg), idx, FALSE)
        ELSE IF F[idx].typ = BOOL
        THEN Outcome(SetValue(F, idx, BoolVal(TRUE)), Pop(w, flag_idx), rest, NoError, idx, TRUE)
        ELSE LET st == StoreValue(F, idx, arg, Head(rest))
             IN  Outcome(st.F, Pop(w, flag_idx), Tail(rest), st.err, idx, st.err = NoError)

\* Mutant: a flag that is not in the working list is skipped.
NamedBranchSkipsUnknown(F, w, arg, rest) ==
    LET flag_idx == FirstNamed(F, w, Tail(arg))
        idx == w[flag_idx]
        argc == Len(rest)
    IN  IF flag_idx = 0
        THEN Outcome(F, w, rest, NoError, 0, FALSE)
        ELSE IF F[idx].typ = BOOL
        THEN Outcome(SetValue(F, idx, BoolVal(TRUE)), Pop(w, flag_idx), rest, NoError, idx, TRUE)
        ELSE IF argc = 0
        THEN Outcome(F, Pop(w, flag_idx), rest,
                     Error("ValueError", "MissingValue", arg), idx, FALSE)
        ELSE LET st == StoreValue(F, idx, arg, Head(rest))
             IN  Outcome(st.F, Pop(w, flag_idx), Tail(rest), st.err, idx, st.err = NoError)

\* The rest of the iteration, for a token that starts with '-'.
NamedBranch(F, w, arg, rest) ==
    LET flag_idx == FirstNamed(F, w, Tail(arg))
        idx == w[flag_idx]
        argc == Len(rest)
    IN  IF flag_idx = 0
        THEN Outcome(F, w, rest, Error("ValueError", "UnknownFlag", arg), 0, FALSE)
        ELSE IF F[idx].typ = BOOL
        THEN Outcome(SetValue(F, idx, BoolVal(TRUE)), Pop(w, flag_idx), rest, NoError, idx, TRUE)
        ELSE IF argc = 0
        THEN Outcome(F, Pop(w, flag_idx), rest,
                     Error("ValueError", "MissingValue", arg), idx, FALSE)
        ELSE LET st == StoreValue(F, idx, arg, Head(rest))
             IN  Outcome(st.F, Pop(w, flag_idx), Tail(rest), st.err, idx, st.err = NoError)

\* One iteration of the while loop: arg = program_argv.pop(0) and what follows.
\* arg[0] of the empty string raises IndexError.
LoopBody(F, w, pa) ==
    LET arg == Head(pa)
        rest == Tail(pa)
    IN  IF arg = <<>>
        THEN Outcome(F, w, rest, Error("IndexError", "IndexError", arg), 0, FALSE)
        ELSE IF arg[1] # "-"
        THEN RegexBranch(F, w, arg, rest)
        ELSE NamedBranch(F, w, arg, rest)

\* Mutant: the loop runs over FLAGS, not over what is left of the working list.
RequiredCheckRegistry(F, w) ==
    LET S == { i \in 1..Len(F) : F[i].required }
    IN  IF S = {} THEN NoError
        ELSE Error("ValueError", "RequiredFlagMissing", F[Least(S)].name)

\* for flag in flags: if flag.required: raise ValueError(...)
RequiredCheck(F, w) ==
    LET S == { i \in 1..Len(w) : F[w[i]].required }
    IN  IF S = {} THEN NoError
        ELSE Error("ValueError", "RequiredFlagMissing", F[w[Least(S)]].name)

Values(F) == [i \in 1..Len(F) |-> F[i].value]
Zeros(F) == [i \in 1..Len(F) |-> 0]
Bump(h, i, yes) == IF i # 0 /\ yes THEN [h EXCEPT ![i] = @ + 1] ELSE h

\* The call: the two assignments before the loop.
parse_flags(a) ==
    /\ pc = "idle"
    /\ calls < MaxCalls
    /\ calls' = calls + 1
    /\ pc' = "loop"
    /\ flags' = WorkingCopy(FLAGS)
    /\ program_argv' = DropProgramName(a)
    /\ raised' = NoError
    /\ start' = Values(FLAGS)
    /\ hits' = Zeros(FLAGS)
    /\ writes' = Zeros(FLAGS)
    /\ UNCHANGED FLAGS

\* One iteration of the while loop.
parse_loop ==
    /\ pc = "loop"
    /\ Len(program_argv) > 0
    /\ LET o == LoopBody(FLAGS, flags, program_argv)
       IN  /\ FLAGS' = o.F
           /\ flags' = o.w
           /\ program_argv' = o.pa
           /\ raised' = o.err
           /\ pc' = IF o.err = NoError THEN "loop" ELSE "returned"
           /\ hits' = Bump(hits, o.sel, TRUE)
           /\ writes' = Bump(writes, o.sel, o.wrote)
    /\ UNCHANGED <<calls, start>>

\* The loop has ended: the check of the required flags, and the return.
parse_end ==
    /\ pc = "loop"
    /\ Len(program_argv) = 0
    /\ raised' = RequiredCheck(FLAGS, flags)
    /\ pc' = "returned"
    /\ UNCHANGED <<FLAGS, program_argv, flags, calls, start, hits, writes>>

\* parse_flags has returned or raised: its frame, with the two locals, is
\* gone and the caller goes on.
parse_return ==
    /\ pc = "returned"
    /\ pc' = "idle"
    /\ program_argv' = <<>>
    /\ flags' = <<>>
    /\ raised' = NoError
    /\ start' = <<>>
    /\ hits' = <<>>
    /\ writes' = <<>>
    /\ UNCHANGED <<FLAGS, calls>>

Next ==
    \/ \E name \in Names, required \in BOOLEAN : int_flag(name, required)
    \/ \E name \in Names, required \in BOOLEAN : str_flag(name, required)
    \/ \E nr \in RegexFlags, required \in BOOLEAN : regex_flag(nr[1], nr[2], required)
    \/ \E name \in Names : bool_flag(name)
    \/ \E name \in Names, required \in BOOLEAN : float_flag(name, required)
    \/ \E a \in Argvs : parse_flags(a)
    \/ parse_loop
    \/ parse_end
    \/ parse_return

Spec == Init /\ [][Next]_vars

TypeOK ==
    /\ pc \in {"idle", "loop", "returned"}
    /\ Len(FLAGS) <= MaxFlags
    /\ calls \in 0..MaxCalls

\* ------------------------------------------------------------- properties
\* The iteration about to run, its token, and the descriptors the pass has
\* not matched yet.
Iterating == pc = "loop" /\ program_argv # <<>>
Arg == Head(program_argv)
Prefixed == Arg # <<>> /\ Arg[1] = "-"
HasValueToken == Len(program_argv) >= 2
ValueToken == program_argv[2]
Indices == 1..Len(FLAGS)
NamedCandidates == { i \in Indices : hits[i] = 0 /\ FLAGS[i].name = Tail(Arg) }
RegexCandidates ==
    { i \in Indices : hits[i] = 0 /\ FLAGS[i].typ = REGEX /\ re_match(FLAGS[i].regex, Arg) }
OthersUnchanged(i) ==
    /\ Len(FLAGS') = Len(FLAGS)
    /\ \A j \in Indices : j # i => FLAGS'[j] = FLAGS[j]
OnlyValueChanged(i) == FLAGS'[i] = [FLAGS[i] EXCEPT !.value = FLAGS'[i].value]
SpecKinds ==
    {"UnexpectedToken", "UnknownFlag", "MissingValue", "TypeMismatch", "RequiredFlagMissing"}
TokenErrors ==
    {"UnexpectedToken", "UnknownFlag", "MissingValue", "TypeMismatch", "IndexError"}
Denoted(typ, v) == IF typ = INT THEN IntVal(int_of(v)) ELSE float_of(v)
Valid(typ, v) == IF typ = INT THEN int_ok(v) ELSE float_ok(v)

\* C1: when -<name> selects an INT (FLOAT) descriptor and the token after it is
\* a valid integer (floating-point) string, the iteration leaves the
\* descriptor holding the number the string denotes, as an int (a float), and
\* not the string.
C1_NumberStored ==
    [][ (Iterating /\ Prefixed /\ NamedCandidates # {} /\ HasValueToken)
        => LET i == Least(NamedCandidates)
           IN  (FLAGS[i].typ \in {INT, FLOAT} /\ Valid(FLAGS[i].typ, ValueToken))
               => FLAGS'[i].value = Denoted(FLAGS[i].typ, ValueToken) ]_vars

\* C2: a pass that has ended has ended with success or with one of the five
\* failure kinds of the specification, whatever the tokens were.
C2_FiveFailureKinds ==
    pc = "returned" => (raised = NoError \/ raised.kind \in SpecKinds)

\* C3: a pass that consumed all its tokens without a token-level error fails
\* with RequiredFlagMissing, naming such a descriptor, exactly when a required
\* descriptor was not matched in the pass, and succeeds otherwise; the required
\* check is never reached while tokens remain; a pass that matched nothing
\* leaves every value as it was, which is the default in a first pass.
C3_RequiredCheck ==
    (pc = "returned" /\ raised.kind \notin TokenErrors)
    => LET Missing == { i \in Indices : FLAGS[i].required /\ hits[i] = 0 }
       IN  /\ program_argv = <<>>
           /\ (raised.kind = "RequiredFlagMissing") <=> (Missing # {})
           /\ Missing = {} => raised = NoError
           /\ Missing # {} => \E i \in Missing : raised.about = FLAGS[i].name
           /\ (\A i \in Indices : hits[i] = 0)
              => /\ Values(FLAGS) = start
                 /\ calls = 1 => \A i \in Indices : FLAGS[i].value = FLAGS[i].default

C3_Witness ==
    /\ pc = "returned"
    /\ raised.kind = "RequiredFlagMissing"
    /\ \E i \in Indices : hits[i] = 1 /\ writes[i] = 1
    /\ \E i \in Indices : FLAGS[i].required /\ hits[i] = 0 /\ raised.about = FLAGS[i].name

\* C4: when the value token of an INT or FLOAT descriptor cannot be coerced,
\* the pass ends with TypeMismatch naming the flag token and the iteration
\* changes no descriptor: the failing one keeps its value and the ones stored
\* earlier in the pass keep theirs; nothing of the pass runs after it.
C4_TypeMismatch ==
    [][ (Iterating /\ Prefixed /\ NamedCandidates # {} /\ HasValueToken)
        => LET i == Least(NamedCandidates)
           IN  (FLAGS[i].typ \in {INT, FLOAT} /\ ~Valid(FLAGS[i].typ, ValueToken))
               => /\ raised' = Error("TypeError", "TypeMismatch", Arg)
                  /\ FLAGS' = FLAGS
                  /\ pc' = "returned" ]_vars

C4_Witness ==
    /\ pc = "returned"
    /\ raised.kind = "TypeMismatch"
    /\ \E i \in Indices :
           /\ hits[i] = 1 /\ writes[i] = 0
           /\ FLAGS[i].typ \in {INT, FLOAT}
           /\ FLAGS[i].value = start[i]
    /\ \E i \in Indices : writes[i] = 1 /\ FLAGS[i].value # start[i]

\* C5: when the descriptor selected by -<name> is BOOL, the iteration sets it
\* to true, pops the flag token only, raises nothing and leaves the loop
\* running, so the next token is the next iteration's own token.
C5_BoolConsumesNothing ==
    [][ (Iterating /\ Prefixed /\ NamedCandidates # {})
        => LET i == Least(NamedCandidates)
           IN  FLAGS[i].typ = BOOL
               => /\ FLAGS'[i].value = BoolVal(TRUE)
                  /\ program_argv' = Tail(program_argv)
                  /\ raised' = NoError
                  /\ pc' = "loop" ]_vars

\* BOOL p and STR pq after [-p, -pq, 7]: true and "7", no error.
C5_Witness ==
    /\ pc = "returned"
    /\ raised = NoError
    /\ Len(FLAGS) = 2
    /\ FLAGS[1].typ = BOOL /\ FLAGS[1].value = BoolVal(TRUE) /\ hits[1] = 1
    /\ FLAGS[2].typ = STR /\ FLAGS[2].value = StrVal(<<"7">>) /\ hits[2] = 1

\* C6: a token that does not start with '-' is assigned, verbatim, to the
\* first REGEX descriptor in registration order, among those not matched in
\* this pass, whose pattern matches it from its start, and to no other
\* descriptor; when there is none the pass fails with UnexpectedToken
\* carrying the token.
C6_RegexFallback ==
    [][ (Iterating /\ ~Prefixed)
        => IF RegexCandidates = {}
           THEN /\ raised' = Error("ValueError", "UnexpectedToken", Arg)
                /\ FLAGS' = FLAGS
           ELSE LET i == Least(RegexCandidates)
                IN  /\ FLAGS'[i].value = StrVal(Arg)
                    /\ OnlyValueChanged(i)
                    /\ OthersUnchanged(i)
                    /\ raised' = NoError ]_vars

\* The same for the tokens that have a first character.
C6_NonEmptyToken ==
    [][ (Iterating /\ ~Prefixed /\ Arg # <<>>)
        => IF RegexCandidates = {}
           THEN /\ raised' = Error("ValueError", "UnexpectedToken", Arg)
                /\ FLAGS' = FLAGS
           ELSE LET i == Least(RegexCandidates)
                IN  /\ FLAGS'[i].value = StrVal(Arg)
                    /\ OnlyValueChanged(i)
                    /\ OthersUnchanged(i)
                    /\ raised' = NoError ]_vars

\* C7: -N selects the first descriptor in registration order, among those not
\* matched in this pass, whose name is exactly N, whatever its kind; the
\* iteration changes the value of that descriptor only, and a REGEX
\* descriptor selected by name takes the value token without a pattern check.
C7_ExactNameFirst ==
    [][ (Iterating /\ Prefixed /\ NamedCandidates # {})
        => LET i == Least(NamedCandidates)
           IN  /\ hits' = [hits EXCEPT ![i] = 1]
               /\ OnlyValueChanged(i)
               /\ OthersUnchanged(i)
               /\ (FLAGS[i].typ \in {STR, REGEX} /\ HasValueToken)
                  => /\ FLAGS'[i].value = StrVal(ValueToken)
                     /\ raised' = NoError ]_vars

\* A descriptor named pq after one named p: -pq and a value change the second
\* only, although p is a prefix of pq.
C7_Witness ==
    /\ pc \in {"loop", "returned"}
    /\ Len(FLAGS) = 2
    /\ FLAGS[1].name = <<"p">> /\ FLAGS[2].name = <<"p", "q">>
    /\ FLAGS[2].typ = REGEX
    /\ hits = <<0, 1>>
    /\ writes = <<0, 1>>
    /\ FLAGS[2].value = StrVal(<<".", "5">>)
    /\ ~re_match(FLAGS[2].regex, <<".", "5">>)
    /\ FLAGS[1].value = start[1]

\* C8: -N with no descriptor named N left in the working list ends the pass
\* with UnknownFlag carrying the token; the iteration changes no descriptor,
\* the tokens after it stay unread, and the pass, being over, changes none
\* afterwards.
C8_UnknownFlag ==
    [][ /\ (Iterating /\ Prefixed /\ NamedCandidates = {})
           => /\ raised' = Error("ValueError", "UnknownFlag", Arg)
              /\ FLAGS' = FLAGS
              /\ program_argv' = Tail(program_argv)
              /\ pc' = "returned"
        /\ (pc = "returned" /\ raised.kind = "UnknownFlag")
           => /\ pc' = "idle"
              /\ FLAGS' = FLAGS ]_vars

C8_Witness ==
    /\ pc = "returned"
    /\ raised.kind = "UnknownFlag"
    /\ program_argv # <<>>
    /\ \E i \in Indices : writes[i] = 1 /\ FLAGS[i].value # start[i]

\* C9: in one pass no descriptor is selected by more than one token and none
\* has its value stored in more than one iteration; a selected descriptor is
\* stored once, unless the pass ended on it with MissingValue or TypeMismatch.
C9_MatchedOnce ==
    pc \in {"loop", "returned"}
    => /\ \A i \in Indices : hits[i] <= 1 /\ writes[i] <= hits[i]
       /\ raised.kind \notin {"MissingValue", "TypeMismatch"} => writes = hits
       /\ \A k, l \in 1..Len(flags) : k < l => flags[k] < flags[l]
       /\ \A i \in Indices : hits[i] = 0 <=> \E k \in 1..Len(flags) : flags[k] = i

\* Two descriptors of one name, each selected by one of two -p tokens, and a
\* third -p that found none left.
C9_Witness ==
    /\ pc = "returned"
    /\ raised.kind = "UnknownFlag"
    /\ Len(FLAGS) = 2
    /\ FLAGS[1].name = FLAGS[2].name
    /\ hits = <<1, 1>>
    /\ writes = <<1, 1>>

\* C10: every call starts from the whole registry in registration order and
\* no pass adds, removes or reorders descriptors or changes anything but
\* values; a descriptor with no match in the current call keeps the value it
\* had when the call began, one matched in an earlier call is selected again
\* by its name, and a required one that the current call did not match makes
\* the call fail although an earlier call matched it.
C10_EachCallWholeRegistry ==
    [][ /\ (pc # "loop" /\ pc' = "loop")
           => /\ flags' = [i \in Indices |-> i]
              /\ FLAGS' = FLAGS
        /\ pc = "loop"
           => /\ Len(FLAGS') = Len(FLAGS)
              /\ \A i \in Indices : OnlyValueChanged(i)
              /\ \A i \in Indices : hits'[i] = 0 => FLAGS'[i].value = start[i]
        /\ (Iterating /\ Prefixed /\ \E i \in Indices : FLAGS[i].name = Tail(Arg) /\ hits[i] = 0)
           => raised'.kind # "UnknownFlag"
        /\ (pc = "loop" /\ pc' = "returned" /\ raised'.kind \notin TokenErrors
              /\ \E i \in Indices : FLAGS[i].required /\ hits[i] = 0)
           => raised'.kind = "RequiredFlagMissing" ]_vars

\* A second call that stores a new value in a descriptor the first call
\* stored, and leaves another with the value the first call gave it.
C10_Witness ==
    /\ pc = "returned"
    /\ calls = 2
    /\ \E i \in Indices :
           /\ hits[i] = 1 /\ writes[i] = 1
           /\ start[i] # FLAGS[i].default
           /\ FLAGS[i].value # start[i]
    /\ \E j \in Indices :
           /\ hits[j] = 0
           /\ FLAGS[j].value # FLAGS[j].default
           /\ FLAGS[j].value = start[j]

====
